---- MODULE Spec2Model ----
(***************************************************************************)
(* A model of the kaleido front end: the token scanner (gettok), the       *)
(* recursive-descent parser with precedence climbing, and the tree-walking *)
(* code generator working on the module's function table.                  *)
(*                                                                         *)
(* Characters are their integer codes, as in the C++ (LastChar is an int,  *)
(* EOF is -1); strings are sequences of codes.  Two builds of the scanner  *)
(* exist in the repository: main.cpp / Scanner.cpp accumulate              *)
(* std::to_string(LastChar), lexer.hpp accumulates LastChar itself.        *)
(***************************************************************************)
EXTENDS Integers, Sequences, FiniteSets, TLC

VARIABLES
    build,            \* which scanner is linked: "main" or "hpp"
    input,            \* the characters standard input holds
    pos,              \* how many of them getchar() has handed out
    LastChar,         \* gettok's static LastChar
    IdentStr,         \* IdentStr / IdentifierStr
    NumVal,           \* NumVal
    CurTok,           \* the parser's current token
    BinopPrecedence,  \* the operator precedence map
    TheModule,        \* the module's function table
    NamedValues,      \* the code generator's symbol table
    errs,             \* what the last operation wrote through LogError
    pc,               \* where the driver stands
    ret,              \* what the last operation returned
    toks,             \* the tokens successive gettok calls returned
    handled           \* how many top-level constructs have been handled

vars == <<build, input, pos, LastChar, IdentStr, NumVal, CurTok,
          BinopPrecedence, TheModule, NamedValues, errs, pc, ret, toks,
          handled>>

----------------------------------------------------------------------------
(* Bounds of the model *)

MaxLexLen == 4

MaxOps == 3

MaxFreeLen == 4

MaxConstructs == 3

----------------------------------------------------------------------------
(* Characters *)

Ord(c) ==
    CASE c = "\n" -> 10 [] c = "\r" -> 13 [] c = " " -> 32 [] c = "#" -> 35
      [] c = "(" -> 40 [] c = ")" -> 41 [] c = "*" -> 42 [] c = "+" -> 43
      [] c = "," -> 44 [] c = "-" -> 45 [] c = "." -> 46 [] c = "/" -> 47
      [] c = "0" -> 48
      [] c = "1" -> 49 [] c = "2" -> 50 [] c = "3" -> 51 [] c = "4" -> 52
      [] c = "5" -> 53 [] c = ";" -> 59 [] c = "<" -> 60
      [] c = "a" -> 97 [] c = "b" -> 98 [] c = "c" -> 99 [] c = "d" -> 100
      [] c = "e" -> 101 [] c = "f" -> 102 [] c = "g" -> 103 [] c = "n" -> 110
      [] c = "r" -> 114 [] c = "t" -> 116 [] c = "x" -> 120

Str(cs) == [i \in 1..Len(cs) |-> Ord(cs[i])]

EOF == -1

tok_eof == -1

tok_def == -2

tok_extern == -3

tok_ident == -4

tok_num == -5

isspace(c) == c \in {9, 10, 11, 12, 13, 32}

isdigit(c) == c \in 48..57

isalpha(c) == c \in (65..90) \cup (97..122)

isalnum(c) == isalpha(c) \/ isdigit(c)

isascii(c) == c \in 0..127

RECURSIVE to_string(_)
to_string(n) ==
    IF n < 10 THEN <<48 + n>> ELSE Append(to_string(n \div 10), 48 + (n % 10))

(* What one character adds to IdentStr / NumStr in the given build. *)
Accum(b, c) == IF b = "main" THEN to_string(c) ELSE <<c>>

----------------------------------------------------------------------------
(* strtod on a string of digits and dots.  A double is modelled by its     *)
(* decimal expansion: ip the integer digits without leading zeros, fp the  *)
(* fraction digits without trailing zeros (exact for the short literals of *)
(* the model).                                                             *)

RECURSIVE DigitsPrefix(_)
DigitsPrefix(str) ==
    IF str # <<>> /\ isdigit(Head(str))
    THEN <<Head(str) - 48>> \o DigitsPrefix(Tail(str))
    ELSE <<>>

RECURSIVE StripLeadingZeros(_)
StripLeadingZeros(ds) ==
    IF ds # <<>> /\ Head(ds) = 0 THEN StripLeadingZeros(Tail(ds)) ELSE ds

RECURSIVE StripTrailingZeros(_)
StripTrailingZeros(ds) ==
    IF ds # <<>> /\ ds[Len(ds)] = 0
    THEN StripTrailingZeros(SubSeq(ds, 1, Len(ds) - 1))
    ELSE ds

Zero == [ip |-> <<>>, fp |-> <<>>]

strtod(str) ==
    LET ipart == DigitsPrefix(str)
        rest  == SubSeq(str, Len(ipart) + 1, Len(str))
        fpart == IF rest # <<>> /\ Head(rest) = 46
                 THEN DigitsPrefix(Tail(rest)) ELSE <<>>
    IN  [ip |-> StripLeadingZeros(ipart), fp |-> StripTrailingZeros(fpart)]

----------------------------------------------------------------------------
(* The scanner.  A scanner/parser state s is the record of the globals the *)
(* functions read and write.                                               *)

(* A statement sequence: the value v is computed once and F continues     *)
(* with it, as a local variable holds the result of a call.                *)
Then(v, F(_)) == CHOOSE r \in {F(w) : w \in {v}} : TRUE

Then2(u, v, F(_, _)) == CHOOSE r \in {F(x, y) : x \in {u}, y \in {v}} : TRUE

Then3(u, v, w, F(_, _, _)) ==
    CHOOSE r \in {F(x, y, z) : x \in {u}, y \in {v}, z \in {w}} : TRUE

getchar(s) ==
    IF s.pos < Len(s.inp)
    THEN [s |-> [s EXCEPT !.pos = s.pos + 1], c |-> s.inp[s.pos + 1]]
    ELSE [s |-> s, c |-> EOF]

(* LastChar = getchar() *)
Advance(s0) ==
    Then(s0, LAMBDA s :
        IF s.pos < Len(s.inp)
        THEN [s EXCEPT !.pos = s.pos + 1, !.LastChar = s.inp[s.pos + 1]]
        ELSE [s EXCEPT !.LastChar = EOF])

RECURSIVE SkipWs(_)
SkipWs(s0) ==
    Then(s0, LAMBDA s : IF isspace(s.LastChar) THEN SkipWs(Advance(s)) ELSE s)

(* while (isalnum(LastChar = getchar())) IdentStr += ... *)
RECURSIVE IdentLoop(_)
IdentLoop(s) ==
    Then(Advance(s), LAMBDA s1 :
        IF isalnum(s1.LastChar)
        THEN IdentLoop([s1 EXCEPT !.IdentStr = @ \o Accum(s1.build, s1.LastChar)])
        ELSE s1)

KeywordOrIdent(str) ==
    IF str = Str(<<"d", "e", "f">>) THEN tok_def
    ELSE IF str = Str(<<"e", "x", "t", "e", "r", "n">>) THEN tok_extern
    ELSE tok_ident

(* do { NumStr += ...; LastChar = getchar(); } while (isdigit(LastChar));  *)
(* r is [s, str]                                                           *)
RECURSIVE DigitLoop(_, _)
DigitLoop(s0, str0) ==
    Then2(s0, str0, LAMBDA s, str :
        Then2(Advance(s), str \o Accum(s.build, s.LastChar), LAMBDA s1, str1 :
            IF isdigit(s1.LastChar) THEN DigitLoop(s1, str1)
            ELSE [s |-> s1, str |-> str1]))

(* lexer.hpp: do { ... } while (isdigit(LastChar) || LastChar == '.'); *)
RECURSIVE DigitDotLoop(_, _)
DigitDotLoop(s0, str0) ==
    Then2(s0, str0, LAMBDA s, str :
        Then2(Advance(s), str \o Accum(s.build, s.LastChar), LAMBDA s1, str1 :
            IF isdigit(s1.LastChar) \/ s1.LastChar = 46 THEN DigitDotLoop(s1, str1)
            ELSE [s |-> s1, str |-> str1]))

IsNumberStart(s) ==
    IF s.build = "main" THEN isdigit(s.LastChar)
    ELSE isdigit(s.LastChar) \/ s.LastChar = 46

(* NumVal = strtod(NumStr.c_str(), 0), b being [s, str] *)
SetNumVal(b) == [b.s EXCEPT !.NumVal = strtod(b.str)]

(* if (LastChar == '.') the second digit loop of main.cpp *)
FractionPass(a) == IF a.s.LastChar = 46 THEN DigitLoop(a.s, a.str) ELSE a

NumberPass(s) ==
    IF s.build = "main"
    THEN Then(Then(DigitLoop(s, <<>>), FractionPass), SetNumVal)
    ELSE Then(DigitDotLoop(s, <<>>), SetNumVal)

(* do LastChar = getchar(); while (LastChar != EOF && != '\n' && != '\r') *)
RECURSIVE CommentLoop(_)
CommentLoop(s) ==
    Then(Advance(s), LAMBDA s1 :
        IF s1.LastChar # EOF /\ s1.LastChar # 10 /\ s1.LastChar # 13
        THEN CommentLoop(s1) ELSE s1)

RECURSIVE gettok(_)

(* gettok after the identifier loop *)
IdentToken(s1) == [s |-> s1, tok |-> KeywordOrIdent(s1.IdentStr)]

(* gettok after the number pass *)
NumberToken(s1) == [s |-> s1, tok |-> tok_num]

(* gettok after a comment: scan on, unless the input ended *)
AfterComment(s2) ==
    IF s2.LastChar # EOF THEN gettok(s2) ELSE [s |-> s2, tok |-> tok_eof]

gettok(s0) ==
    Then(SkipWs(s0), LAMBDA s :
        IF isalpha(s.LastChar)
        THEN Then(IdentLoop([s EXCEPT !.IdentStr = Accum(s.build, s.LastChar)]),
                  IdentToken)
        ELSE IF IsNumberStart(s) THEN Then(NumberPass(s), NumberToken)
        ELSE IF s.LastChar = 35 THEN Then(CommentLoop(s), AfterComment)
        ELSE IF s.LastChar = EOF THEN [s |-> s, tok |-> tok_eof]
        ELSE [s |-> Advance(s), tok |-> s.LastChar])

----------------------------------------------------------------------------
(* The AST.  Null is the absent node (a null unique_ptr). *)

Null == [k |-> "null"]

NumExprAst(Val) == [k |-> "num", Val |-> Val]

VarExprAst(Name) == [k |-> "var", Name |-> Name]

BinExprAst(Op, Lhs, Rhs) == [k |-> "bin", Op |-> Op, Lhs |-> Lhs, Rhs |-> Rhs]

CallExprAst(Callee, Args) == [k |-> "call", Callee |-> Callee, Args |-> Args]

PrototypeAst(Name, Args) == [k |-> "proto", Name |-> Name, Args |-> Args]

FunctionAst(Proto, Body) == [k |-> "function", Proto |-> Proto, Body |-> Body]

(* The literal node of a whole number, given by its digits. *)
Lit(ds) == NumExprAst([ip |-> ds, fp |-> <<>>])

----------------------------------------------------------------------------
(* The parser.  Every rule takes the state s and returns [s, n]: the state *)
(* it leaves and the node it returns (Null on failure).                    *)

(* CurTok = gettok() *)
SetCurTok(g) == [g.s EXCEPT !.CurTok = g.tok]

getNextToken(s) == Then(gettok(s), SetCurTok)

StartupPrecedence == (60 :> 10) @@ (43 :> 20) @@ (45 :> 20) @@ (42 :> 40)

(* BinopPrecedence[CurTok]: std::map::operator[] inserts a 0 for a key the *)
(* map does not hold.  Returns [s, prec].                                  *)
GetTokPrecedence_Unchecked(s) ==
    IF ~isascii(s.CurTok) THEN [s |-> s, prec |-> -1]
    ELSE Then(IF s.CurTok \in DOMAIN s.BinopPrecedence
              THEN s.BinopPrecedence
              ELSE s.BinopPrecedence @@ (s.CurTok :> 0),
              LAMBDA m : [s |-> [s EXCEPT !.BinopPrecedence = m],
                          prec |-> m[s.CurTok]])

GetTokPrecedence(s) ==
    IF ~isascii(s.CurTok) THEN [s |-> s, prec |-> -1]
    ELSE Then(IF s.CurTok \in DOMAIN s.BinopPrecedence
              THEN s.BinopPrecedence
              ELSE s.BinopPrecedence @@ (s.CurTok :> 0),
              LAMBDA m :
                  IF m[s.CurTok] <= 0
                  THEN [s |-> [s EXCEPT !.BinopPrecedence = m], prec |-> -1]
                  ELSE [s |-> [s EXCEPT !.BinopPrecedence = m],
                        prec |-> m[s.CurTok]])

LogError(s, msg) == [s |-> [s EXCEPT !.errs = Append(@, msg)], n |-> Null]

ParseNumExpr_NoAdvance(s) == [s |-> s, n |-> NumExprAst(s.NumVal)]

ParseNumExpr(s) == [s |-> getNextToken(s), n |-> NumExprAst(s.NumVal)]

RECURSIVE ParseExpression(_)
RECURSIVE ParsePrimary(_)
RECURSIVE ParseBinopRhs(_, _, _)
RECURSIVE ParseArgs(_, _)

ParenClose_Unchecked(V) ==
    IF V.n = Null THEN V
    ELSE IF V.s.CurTok # 41 THEN V
    ELSE [s |-> getNextToken(V.s), n |-> V.n]

(* ParseParenExpr once V = ParseExpression() has returned. *)
ParenClose(V) ==
    IF V.n = Null THEN V
    ELSE IF V.s.CurTok # 41 THEN LogError(V.s, "expected ')'")
    ELSE [s |-> getNextToken(V.s), n |-> V.n]

ParseParenExpr(s) == Then(Then(getNextToken(s), ParseExpression), ParenClose)

(* One turn of the while (true) loop of ParseIdentExpr once Arg =           *)
(* ParseExpression() has returned.                                          *)
ArgsStep(Arg, Args) ==
    IF Arg.n = Null THEN [s |-> Arg.s, ok |-> FALSE, Args |-> Args]
    ELSE IF Arg.s.CurTok = 41
    THEN [s |-> Arg.s, ok |-> TRUE, Args |-> Append(Args, Arg.n)]
    ELSE IF Arg.s.CurTok # 44
    THEN [s |-> LogError(Arg.s, "Expected ')' or ',' in argument list").s,
          ok |-> FALSE, Args |-> Append(Args, Arg.n)]
    ELSE Then2(getNextToken(Arg.s), Append(Args, Arg.n), ParseArgs)

(* The while (true) loop of ParseIdentExpr; returns [s, ok, Args], the     *)
(* current token being the ')' when ok.                                    *)
ParseArgs(s, Args) == Then2(ParseExpression(s), Args, ArgsStep)

(* ParseIdentExpr after the argument list: eat the ')'. *)
IdentClose(IdName, a) ==
    IF ~a.ok THEN [s |-> a.s, n |-> Null]
    ELSE [s |-> getNextToken(a.s), n |-> CallExprAst(IdName, a.Args)]

(* ParseIdentExpr after the '(' is eaten. *)
IdentCall(IdName, s2) ==
    Then2(IdName, IF s2.CurTok # 41 THEN ParseArgs(s2, <<>>)
                  ELSE [s |-> s2, ok |-> TRUE, Args |-> <<>>], IdentClose)

(* ParseIdentExpr after the identifier is eaten. *)
IdentAfterName(IdName, s1) ==
    IF s1.CurTok # 40 THEN [s |-> s1, n |-> VarExprAst(IdName)]
    ELSE Then2(IdName, getNextToken(s1), IdentCall)

ParseIdentExpr(s) == Then2(s.IdentStr, getNextToken(s), IdentAfterName)

ParsePrimary(s) ==
    IF s.CurTok = tok_ident THEN ParseIdentExpr(s)
    ELSE IF s.CurTok = tok_num THEN ParseNumExpr(s)
    ELSE IF s.CurTok = 40 THEN ParseParenExpr(s)
    ELSE LogError(s, "unknown token when expecting an expression")

BindsTighter_Never(TokPrec, NextPrec) == FALSE

(* Whether the operator after Rhs takes Rhs as its Lhs. *)
BindsTighter(TokPrec, NextPrec) == TokPrec < NextPrec

(* Whether the pending token ends the climb at precedence ExprPrec. *)
StopsClimb(TokPrec, ExprPrec) == TokPrec < ExprPrec

BinopMerge_RightNested(ExprPrec, Lhs, Binop, Rhs2) ==
    IF Rhs2.n = Null THEN Rhs2
    ELSE Then(ParseBinopRhs(ExprPrec, Rhs2.n, Rhs2.s), LAMBDA r :
             IF r.n = Null THEN r
             ELSE [s |-> r.s, n |-> BinExprAst(Binop, Lhs, r.n)])

(* The loop body once Rhs is complete: merge and go round again. *)
BinopMerge(ExprPrec, Lhs, Binop, Rhs2) ==
    IF Rhs2.n = Null THEN Rhs2
    ELSE ParseBinopRhs(ExprPrec, BinExprAst(Binop, Lhs, Rhs2.n), Rhs2.s)

(* The loop body once NextPrec = GetTokPrecedence() is known (nx). *)
BinopNext(ExprPrec, Lhs, Binop, TokPrec, Rhs, nx) ==
    Then(IF BindsTighter(TokPrec, nx.prec)
         THEN ParseBinopRhs(TokPrec + 1, Rhs, nx.s)
         ELSE [s |-> nx.s, n |-> Rhs],
         LAMBDA Rhs2 : BinopMerge(ExprPrec, Lhs, Binop, Rhs2))

(* The loop body once Rhs = ParsePrimary() has returned. *)
BinopRhs(ExprPrec, Lhs, Binop, TokPrec, Rhs) ==
    IF Rhs.n = Null THEN Rhs
    ELSE Then(GetTokPrecedence(Rhs.s),
              LAMBDA nx : BinopNext(ExprPrec, Lhs, Binop, TokPrec, Rhs.n, nx))

(* One turn of the while (true) loop, t being TokPrec = GetTokPrecedence(). *)
BinopLoop(ExprPrec, Lhs, t) ==
    IF StopsClimb(t.prec, ExprPrec) THEN [s |-> t.s, n |-> Lhs]
    ELSE Then(Then(getNextToken(t.s), ParsePrimary),
              LAMBDA Rhs : BinopRhs(ExprPrec, Lhs, t.s.CurTok, t.prec, Rhs))

ParseBinopRhs(ExprPrec, Lhs, s) ==
    Then3(ExprPrec, Lhs, GetTokPrecedence(s), BinopLoop)

(* ParseExpression once Lhs = ParsePrimary() has returned. *)
ExprAfterPrimary(Lhs) ==
    IF Lhs.n = Null THEN Lhs ELSE ParseBinopRhs(0, Lhs.n, Lhs.s)

ParseExpression(s) == Then(ParsePrimary(s), ExprAfterPrimary)

LogErrorP(s, msg) == LogError(s, msg)

RECURSIVE ProtoArgs(_, _)

(* One turn of  while (getNextToken() == tok_ident)  once the token is read *)
ProtoArgsStep(s1, ArgNames) ==
    IF s1.CurTok = tok_ident
    THEN Then2(s1, Append(ArgNames, s1.IdentStr), ProtoArgs)
    ELSE [s |-> s1, ArgNames |-> ArgNames]

(* The argument-name loop of ParsePrototype: [s, ArgNames] *)
ProtoArgs(s, ArgNames) == Then2(getNextToken(s), ArgNames, ProtoArgsStep)

(* ParsePrototype after the argument names: the ')' *)
ProtoClose(FnName, a) ==
    IF a.s.CurTok # 41 THEN LogErrorP(a.s, "Expected ')' in prototype")
    ELSE [s |-> getNextToken(a.s), n |-> PrototypeAst(FnName, a.ArgNames)]

(* ParsePrototype after the function name is eaten. *)
ProtoAfterName(FnName, s1) ==
    IF s1.CurTok # 40 THEN LogErrorP(s1, "Expected '(' in prototype")
    ELSE Then2(FnName, ProtoArgs(s1, <<>>), ProtoClose)

ParsePrototype(s) ==
    IF s.CurTok # tok_ident THEN LogErrorP(s, "Expected function name in prototype")
    ELSE Then2(s.IdentStr, getNextToken(s), ProtoAfterName)

(* ParseDefinition once E = ParseExpression() has returned. *)
DefAfterBody(Proto, E) ==
    IF E.n = Null THEN E ELSE [s |-> E.s, n |-> FunctionAst(Proto, E.n)]

(* ParseDefinition once Proto = ParsePrototype() has returned. *)
DefAfterProto(P) ==
    IF P.n = Null THEN P ELSE Then2(P.n, ParseExpression(P.s), DefAfterBody)

ParseDefinition(s) == Then(Then(getNextToken(s), ParsePrototype), DefAfterProto)

ParseExtern(s) == Then(getNextToken(s), ParsePrototype)

(* ParseTopLevelExpr once E = ParseExpression() has returned: the          *)
(* anonymous prototype.                                                    *)
TopLevelWrap(E) ==
    IF E.n = Null THEN E
    ELSE [s |-> E.s, n |-> FunctionAst(PrototypeAst(<<>>, <<>>), E.n)]

ParseTopLevelExpr(s) == Then(ParseExpression(s), TopLevelWrap)

----------------------------------------------------------------------------
(* The code generator.  The module is the sequence of its functions, in    *)
(* creation order, and the counter its symbol table uses to rename a       *)
(* function created under a name that is taken.  A function is its name,   *)
(* its parameter names, whether it has an entry block (is not empty()) and *)
(* the instructions of that block.  A Value* is "null", "const", "arg" or  *)
(* "inst".  A generation state g is [M, nv, insts, errs]: the module,      *)
(* NamedValues, the instructions emitted at the insertion point, and what  *)
(* LogErrorV has written.                                                  *)

Inst(op, callee) == [op |-> op, callee |-> callee]

HasName(M, Name) == \E i \in 1..Len(M.fns) : M.fns[i].Name = Name

(* TheModule->getFunction(Name): the function's index, 0 for nullptr.  A   *)
(* function without a name is in no symbol table.                          *)
getFunction(M, Name) ==
    IF Name # <<>> /\ HasName(M, Name)
    THEN CHOOSE i \in 1..Len(M.fns) : M.fns[i].Name = Name
    ELSE 0

(* The function of that name, which the module holds. *)
FnOf(M, Name) == M.fns[CHOOSE i \in 1..Len(M.fns) : M.fns[i].Name = Name]

(* F->eraseFromParent() *)
eraseFromParent(M, Name) ==
    [M EXCEPT !.fns = SelectSeq(@, LAMBDA f : f.Name # Name)]

(* Function::Create(..., Name, TheModule.get()) and the setName loop: a    *)
(* taken name is made unique with "." and the next number.  Returns        *)
(* [M, F], F the name the function got.                                    *)
PrototypeCodegen(P, M) ==
    LET taken == P.Name # <<>> /\ HasName(M, P.Name)
        name  == IF taken THEN P.Name \o <<46>> \o to_string(M.LastUnique + 1)
                 ELSE P.Name
        F     == [Name |-> name, Args |-> P.Args, hasEntry |-> FALSE, insts |-> <<>>]
    IN  [M |-> [fns |-> Append(M.fns, F),
                LastUnique |-> IF taken THEN M.LastUnique + 1 ELSE M.LastUnique],
         F |-> name]

LogErrorV(g, msg) == [g |-> [g EXCEPT !.errs = Append(@, msg)], v |-> "null"]

Emit(g, op, callee) == [g EXCEPT !.insts = Append(@, Inst(op, callee))]

(* Value* V = NamedValues[Name]: operator[] inserts a null for a new key *)
VarCodegen_AlwaysFound(e, g) == [g |-> g, v |-> "arg"]

VarCodegen(e, g) ==
    Then(IF e.Name \in DOMAIN g.nv THEN g.nv ELSE g.nv @@ (e.Name :> "null"),
         LAMBDA nv :
             IF nv[e.Name] = "null"
             THEN LogErrorV([g EXCEPT !.nv = nv], "Unknown variable name")
             ELSE [g |-> [g EXCEPT !.nv = nv], v |-> nv[e.Name]])

(* The switch (Op) of BinExprAst::codegen *)
BinEmit(Op, g) ==
    IF Op = 43 THEN [g |-> Emit(g, "fadd", <<>>), v |-> "inst"]
    ELSE IF Op = 45 THEN [g |-> Emit(g, "fsub", <<>>), v |-> "inst"]
    ELSE IF Op = 42 THEN [g |-> Emit(g, "fmul", <<>>), v |-> "inst"]
    ELSE IF Op = 60 THEN [g |-> Emit(Emit(g, "fcmp", <<>>), "uitofp", <<>>), v |-> "inst"]
    ELSE LogErrorV(g, "invalid binary operator")

(* if (CalleeF->arg_size() != Args.size()) *)
ArityMismatch_Fewer(nparams, nargs) == nparams < nargs

ArityMismatch(nparams, nargs) == nparams # nargs

RECURSIVE ExprCodegen(_, _)
RECURSIVE ArgsCodegen(_, _, _)

RECURSIVE ArgsCodegen_NoShortCircuit(_, _, _)
ArgsCodegen_NoShortCircuit(Args, i, g) ==
    IF i > Len(Args) THEN [g |-> g, ok |-> TRUE]
    ELSE Then(ExprCodegen(Args[i], g), LAMBDA a :
             Then(ArgsCodegen_NoShortCircuit(Args, i + 1, a.g), LAMBDA rest :
                 [g |-> rest.g, ok |-> a.v # "null" /\ rest.ok]))

(* The for loop of CallExprAst::codegen from argument i on: [g, ok] *)
ArgsCodegen(Args, i, g) ==
    IF i > Len(Args) THEN [g |-> g, ok |-> TRUE]
    ELSE Then(ExprCodegen(Args[i], g), LAMBDA a :
             IF a.v = "null" THEN [g |-> a.g, ok |-> FALSE]
             ELSE ArgsCodegen(Args, i + 1, a.g))

CallCodegen(e, g) ==
    Then(getFunction(g.M, e.Callee), LAMBDA CalleeF :
        IF CalleeF = 0 THEN LogErrorV(g, "Unknown function referenced")
        ELSE IF ArityMismatch(Len(g.M.fns[CalleeF].Args), Len(e.Args))
        THEN LogErrorV(g, "Incorrect # args passed")
        ELSE Then(ArgsCodegen(e.Args, 1, g), LAMBDA a :
                 IF ~a.ok THEN [g |-> a.g, v |-> "null"]
                 ELSE [g |-> Emit(a.g, "call", e.Callee), v |-> "inst"]))

ExprCodegen(e, g) ==
    IF e.k = "num" THEN [g |-> g, v |-> "const"]
    ELSE IF e.k = "var" THEN VarCodegen(e, g)
    ELSE IF e.k = "call" THEN CallCodegen(e, g)
    ELSE Then(ExprCodegen(e.Lhs, g), LAMBDA L :
             Then(ExprCodegen(e.Rhs, L.g), LAMBDA R :
                 IF L.v = "null" \/ R.v = "null" THEN [g |-> R.g, v |-> "null"]
                 ELSE BinEmit(e.Op, R.g)))

(* NamedValues.clear(); for (auto &Arg : TheFunction->args()) ... *)
ArgsTable(TheFunction) ==
    [n \in {TheFunction.Args[i] : i \in 1..Len(TheFunction.Args)} |-> "arg"]

(* if (!TheFunction->empty()) *)
IsRedefinition_Never(TheFunction) == FALSE

IsRedefinition(TheFunction) == TheFunction.hasEntry

(* The failure path: TheFunction->eraseFromParent() *)
DiscardFailed_Keep(M, Name) == M

DiscardFailed(M, Name) == eraseFromParent(M, Name)

SetBody(M, Name, hasEntry, insts) ==
    [M EXCEPT !.fns = [i \in 1..Len(@) |->
        IF @[i].Name = Name THEN [@[i] EXCEPT !.hasEntry = hasEntry, !.insts = insts]
        ELSE @[i]]]

(* FunctionAst::codegen.  Returns [M, nv, errs, F, at]: F the function's   *)
(* name when it is returned, ok whether it is; at is the module and symbol *)
(* table Body->codegen() started from (seen is whether it was reached).    *)
FunctionCodegen(FnAST, M, nv0) ==
    Then(IF getFunction(M, FnAST.Proto.Name) = 0
         THEN PrototypeCodegen(FnAST.Proto, M)
         ELSE [M |-> M, F |-> FnAST.Proto.Name], LAMBDA decl :
    Then(FnOf(decl.M, decl.F), LAMBDA TheFunction :
        IF IsRedefinition(TheFunction)
        THEN [M |-> decl.M, nv |-> nv0, errs |-> <<"Function cannot be redefined">>,
              ok |-> FALSE, F |-> decl.F, seen |-> FALSE,
              at |-> [M |-> decl.M, nv |-> nv0]]
        ELSE
    Then(SetBody(decl.M, decl.F, TRUE, <<>>), LAMBDA M1 :
    Then(ExprCodegen(FnAST.Body, [M |-> M1, nv |-> ArgsTable(TheFunction),
                                  insts |-> <<>>, errs |-> <<>>]), LAMBDA RetVal :
        IF RetVal.v # "null"
        THEN [M |-> SetBody(M1, decl.F, TRUE,
                            Append(RetVal.g.insts, Inst("ret", <<>>))),
              nv |-> RetVal.g.nv, errs |-> RetVal.g.errs,
              ok |-> TRUE, F |-> decl.F, seen |-> TRUE,
              at |-> [M |-> M1, nv |-> ArgsTable(TheFunction)]]
        ELSE [M |-> DiscardFailed(SetBody(M1, decl.F, TRUE, RetVal.g.insts),
                                  decl.F),
              nv |-> RetVal.g.nv, errs |-> RetVal.g.errs,
              ok |-> FALSE, F |-> decl.F, seen |-> TRUE,
              at |-> [M |-> M1, nv |-> ArgsTable(TheFunction)]]))))

----------------------------------------------------------------------------
(* The globals as one record, and back. *)

State ==
    [build |-> build, inp |-> input, pos |-> pos, LastChar |-> LastChar,
     IdentStr |-> IdentStr, NumVal |-> NumVal, CurTok |-> CurTok,
     BinopPrecedence |-> BinopPrecedence, errs |-> <<>>]

Store(s0) ==
    \E s \in {s0} :
        /\ pos' = s.pos
        /\ LastChar' = s.LastChar
        /\ IdentStr' = s.IdentStr
        /\ NumVal' = s.NumVal
        /\ CurTok' = s.CurTok
        /\ BinopPrecedence' = s.BinopPrecedence
        /\ errs' = s.errs

(* The program as it starts: static int LastChar = ' ', the other statics  *)
(* zero-initialised, the precedence map as its initialiser sets it.        *)
Boot(b, inp) ==
    [build |-> b, inp |-> inp, pos |-> 0, LastChar |-> 32, IdentStr |-> <<>>,
     NumVal |-> Zero, CurTok |-> 0, BinopPrecedence |-> StartupPrecedence,
     errs |-> <<>>]

Startup(b, inp) ==
    /\ build = b
    /\ input = inp
    /\ pos = Boot(b, inp).pos
    /\ LastChar = Boot(b, inp).LastChar
    /\ IdentStr = Boot(b, inp).IdentStr
    /\ NumVal = Boot(b, inp).NumVal
    /\ CurTok = Boot(b, inp).CurTok
    /\ BinopPrecedence = Boot(b, inp).BinopPrecedence
    /\ TheModule = [fns |-> <<>>, LastUnique |-> 0]
    /\ NamedValues = << >>
    /\ errs = <<>>
    /\ ret = Null
    /\ toks = <<>>
    /\ handled = 0

Builds == {"main", "hpp"}

RECURSIVE SeqsUpTo(_, _)
SeqsUpTo(S, n) ==
    IF n = 0 THEN {<<>>}
    ELSE LET shorter == SeqsUpTo(S, n - 1)
         IN  shorter \cup {Append(q, c) : q \in {r \in shorter : Len(r) = n - 1}, c \in S}

----------------------------------------------------------------------------
(* Scanning: successive calls of gettok on an input. *)

LexAlphabet == {Ord(c) : c \in {"d", "e", "f", "1", "#", "\n", " ", "."}}

Words ==
    {Str(w) : w \in {<<"d", "e", "f">>, <<"e", "x", "t", "e", "r", "n">>,
                     <<"d", "e">>, <<"d", "e", "f", "x">>, <<"d", "e", "f", "1">>,
                     <<"e", "x", "t", "e", "r", "n", "a">>,
                     <<"e", "x", "t", "e", "r">>, <<"x", "1">>, <<"a">>}}

WordInputs ==
    {pre \o w \o post :
        pre \in {<<>>, Str(<<" ">>), Str(<<"1", " ">>), Str(<<"(">>)},
        w \in Words,
        post \in {<<>>, Str(<<" ">>), Str(<<"(">>), Str(<<"+", "1">>), Str(<<" ", "a">>)}}

CommentInputs ==
    {Str(<<"#">>) \o body \o end \o tail :
        body \in SeqsUpTo({Ord("c"), Ord("#"), Ord(" "), Ord("1")}, MaxLexLen - 2),
        end \in {<<>>, Str(<<"\n">>), Str(<<"\r">>)},
        tail \in {<<>>, Str(<<"4", "2">>), Str(<<"4">>), Str(<<"0", "4", "2">>),
                  Str(<<"x">>), Str(<<"\n", "4", "2">>), Str(<<"+">>),
                  Str(<<"#", "c", "\n", "1">>)}}

LexInputs == SeqsUpTo(LexAlphabet, MaxLexLen) \cup WordInputs \cup CommentInputs

InitLex ==
    /\ \E b \in Builds, inp \in LexInputs : Startup(b, inp)
    /\ pc = "lex"

EofCount == Cardinality({i \in 1..Len(toks) : toks[i].tok = tok_eof})

(* One call of gettok(); the caller sees the token and the two payloads. *)
GetTok ==
    /\ pc = "lex"
    /\ EofCount < 2
    /\ LET g == gettok(State)
       IN  /\ Store(g.s)
           /\ toks' = Append(toks, [tok |-> g.tok, IdentStr |-> g.s.IdentStr,
                                    NumVal |-> g.s.NumVal])
           /\ ret' = g.tok
    /\ UNCHANGED <<build, input, TheModule, NamedValues, pc, handled>>

NextLex == GetTok

SpecLex == InitLex /\ [][NextLex]_vars

----------------------------------------------------------------------------
(* Parsing: main() primes CurTok, then a rule is applied to the input. *)

OpChars == {Ord("<"), Ord("+"), Ord("-"), Ord("*")}

(* The i-th operand of a chain: the digit i or the i-th letter. *)
Operand(i, kind) == IF kind = "n" THEN 48 + i ELSE 96 + i

(* p1 op1 p2 ... opk p(k+1), one character each. *)
Chains(k) ==
    {[i \in 1..(2 * k + 1) |->
          IF i % 2 = 1 THEN Operand((i + 1) \div 2, kinds[(i + 1) \div 2])
          ELSE ops[i \div 2]] :
        kinds \in [1..(k + 1) -> {"n", "v"}], ops \in [1..k -> OpChars]}

ChainInputs == UNION {Chains(k) : k \in 0..MaxOps}

(* '(' ... chain ... with fewer ')' than '(' *)
UnclosedInputs ==
    {Str(<<"(">>) \o c : c \in UNION {Chains(k) : k \in 0..(MaxOps - 1)}}
    \cup {Str(<<"(", "(">>) \o c \o close :
            c \in UNION {Chains(k) : k \in 0..(MaxOps - 2)},
            close \in {<<>>, Str(<<")">>)}}
    \cup {Str(<<"(">>) \o c \o Str(<<" ">>) : c \in Chains(1)}

CallInputs ==
    {Str(w) : w \in {<<"f", "(", ")">>, <<"f", "(", "1", ",", "a", ")">>,
                     <<"f", "(", "1", ",", "a", ")", "+", "1">>,
                     <<"f", "(", "1", " ", "a", ")">>, <<"f", "(", "1", ",", ")">>,
                     <<"f", "(", "1", "+", "a">>, <<"f", "(", "g", "(", "1", ")", ")">>,
                     <<"(", "1", "+", "2", ")", "*", "3">>,
                     <<"1", "*", "(", "2", "+", "3", ")">>,
                     <<"1", " ", "+", " ", "2", " ", "*", "3", ";">>}}

FreeAlphabet == {Ord(c) : c \in {"(", ")", "1", "+", "*", "x"}}

(* Prototypes, definitions and externs, well formed and not. *)
DefInputs ==
    {Str(w) : w \in {<<"d", "e", "f", " ", "f", "(", "a", ")", " ", "a">>,
                     <<"d", "e", "f", " ", "f", "(", "a", " ", "b", ")", "a", "+", "b", ";">>,
                     <<"d", "e", "f", " ", "f", "(", ")", "1", " ", "2">>,
                     <<"d", "e", "f", " ", "f", " ", "a">>,
                     <<"d", "e", "f", " ", "(", "a", ")", "1">>,
                     <<"d", "e", "f", " ", "f", "(", "a", " ", "1">>,
                     <<"d", "e", "f", " ", "f", "(", "a", ")", "(", "1">>,
                     <<"d", "e", "f", " ", "f", "(", "a", ",", "b", ")", "a">>,
                     <<"e", "x", "t", "e", "r", "n", " ", "f", "(", "a", ")">>,
                     <<"e", "x", "t", "e", "r", "n", " ", "f", "(", ")", "1">>,
                     <<"e", "x", "t", "e", "r", "n", " ", "f", "(", "a", " ", "b", ")", ";">>,
                     <<"e", "x", "t", "e", "r", "n", " ", "1">>,
                     <<"e", "x", "t", "e", "r", "n", " ", "f", "(", "a">>,
                     <<"f", "(", "a", " ", "b", ")", " ", "1">>,
                     <<"f", "(", ")">>, <<"f", "(", "a", ")", "#", "c", "\n", "x">>,
                     <<"f", "a">>}}

(* Characters that are no operator of the table, among operands. *)
OddInputs ==
    {<<49, c, 50>> : c \in {47, 59, 44, 46, 61, 62, 33}}
    \cup {<<97, c, 98, 43, 49>> : c \in {47, 59, 37}}
    \cup {<<49, 60, 50, c, 51>> : c \in {47, 62}}

ParseInputs ==
    ChainInputs \cup UnclosedInputs \cup CallInputs \cup DefInputs \cup OddInputs
    \cup SeqsUpTo(FreeAlphabet, MaxFreeLen)

(* The rule's result r = [s, n]: the globals it leaves, the node returned. *)
StoreResult(r) == Store(r.s) /\ ret' = r.n

InitParse ==
    /\ \E b \in Builds, inp \in ParseInputs : Startup(b, inp)
    /\ pc = "start"

(* main(): getNextToken() before MainLoop() *)
Prime ==
    /\ pc = "start"
    /\ Store(getNextToken(State))
    /\ pc' = "ready"
    /\ UNCHANGED <<build, input, TheModule, NamedValues, ret, toks, handled>>

CallParseExpression ==
    /\ pc = "ready"
    /\ StoreResult(ParseExpression(State))
    /\ pc' = "expression"
    /\ UNCHANGED <<build, input, TheModule, NamedValues, toks, handled>>

CallParsePrimary ==
    /\ pc = "ready"
    /\ StoreResult(ParsePrimary(State))
    /\ pc' = "primary"
    /\ UNCHANGED <<build, input, TheModule, NamedValues, toks, handled>>

(* The rules below are applied where their callers apply them: the three  *)
(* primaries on their first token, ParseDefinition and ParseExtern on the  *)
(* keyword MainLoop dispatches on.                                         *)
CallParseIdentExpr ==
    /\ pc = "ready" /\ CurTok = tok_ident
    /\ StoreResult(ParseIdentExpr(State))
    /\ pc' = "identexpr"
    /\ UNCHANGED <<build, input, TheModule, NamedValues, toks, handled>>

CallParseNumExpr ==
    /\ pc = "ready" /\ CurTok = tok_num
    /\ StoreResult(ParseNumExpr(State))
    /\ pc' = "numexpr"
    /\ UNCHANGED <<build, input, TheModule, NamedValues, toks, handled>>

CallParseParenExpr ==
    /\ pc = "ready" /\ CurTok = 40
    /\ StoreResult(ParseParenExpr(State))
    /\ pc' = "parenexpr"
    /\ UNCHANGED <<build, input, TheModule, NamedValues, toks, handled>>

CallParsePrototype ==
    /\ pc = "ready"
    /\ StoreResult(ParsePrototype(State))
    /\ pc' = "prototype"
    /\ UNCHANGED <<build, input, TheModule, NamedValues, toks, handled>>

CallParseDefinition ==
    /\ pc = "ready" /\ CurTok = tok_def
    /\ StoreResult(ParseDefinition(State))
    /\ pc' = "definition"
    /\ UNCHANGED <<build, input, TheModule, NamedValues, toks, handled>>

CallParseExtern ==
    /\ pc = "ready" /\ CurTok = tok_extern
    /\ StoreResult(ParseExtern(State))
    /\ pc' = "extern"
    /\ UNCHANGED <<build, input, TheModule, NamedValues, toks, handled>>

CallParseTopLevelExpr ==
    /\ pc = "ready"
    /\ StoreResult(ParseTopLevelExpr(State))
    /\ pc' = "toplevel"
    /\ UNCHANGED <<build, input, TheModule, NamedValues, toks, handled>>

NextParse ==
    \/ Prime
    \/ CallParseExpression
    \/ CallParsePrimary
    \/ CallParseIdentExpr
    \/ CallParseNumExpr
    \/ CallParseParenExpr
    \/ CallParsePrototype
    \/ CallParseDefinition
    \/ CallParseExtern
    \/ CallParseTopLevelExpr

SpecParse == InitParse /\ [][NextParse]_vars

----------------------------------------------------------------------------
(* Generation: the handlers' code generation on the ASTs the parser hands  *)
(* them, against the module InitializeModule() opens.                      *)

Nf == Str(<<"f">>)

Ng == Str(<<"g">>)

Na == Str(<<"a">>)

Nb == Str(<<"b">>)

Nx == Str(<<"x">>)

One == Lit(<<1>>)

ProtoPool ==
    {PrototypeAst(Nf, <<Na>>), PrototypeAst(Nf, <<Nb>>), PrototypeAst(Nf, <<Na, Nb>>),
     PrototypeAst(Ng, <<Na>>)}

BodyPool ==
    {VarExprAst(Na), VarExprAst(Nx),
     BinExprAst(43, VarExprAst(Nb), One),
     CallExprAst(Nf, <<VarExprAst(Na)>>),
     CallExprAst(Nf, <<VarExprAst(Nx), CallExprAst(Ng, <<One>>)>>),
     CallExprAst(Ng, <<One>>)}

ExprPool ==
    {One, VarExprAst(Na),
     BinExprAst(47, One, One),
     CallExprAst(Nf, <<One>>),
     CallExprAst(Nf, <<CallExprAst(Ng, <<One>>), One>>),
     CallExprAst(Ng, <<>>)}

InitGen ==
    /\ \E b \in {"main"} :
          /\ build = b /\ input = <<>>
          /\ pos = Boot(b, <<>>).pos /\ LastChar = Boot(b, <<>>).LastChar
          /\ IdentStr = Boot(b, <<>>).IdentStr /\ NumVal = Boot(b, <<>>).NumVal
          /\ CurTok = Boot(b, <<>>).CurTok
          /\ BinopPrecedence = Boot(b, <<>>).BinopPrecedence
    /\ TheModule = [fns |-> <<>>, LastUnique |-> 0]
    /\ NamedValues = << >>
    /\ errs = <<>>
    /\ toks = <<>>
    /\ handled = 0
    /\ ret = [op |-> "none", ast |-> Null, ok |-> TRUE, F |-> <<>>, seen |-> FALSE,
              at |-> [M |-> TheModule, nv |-> NamedValues], before |-> TheModule]
    /\ pc = "generate"

(* What a handler's generation leaves to look at: the construct, whether a *)
(* function was returned and which, the module before the handler ran, and *)
(* the module and symbol table Body->codegen() started from.               *)
GenReturn(op, ast, r) ==
    [op |-> op, ast |-> ast, ok |-> r.ok, F |-> r.F, seen |-> r.seen, at |-> r.at,
     before |-> TheModule]

(* HandleDefinition, ParseDefinition having returned FnAST *)
HandleDefinition(FnAST) ==
    /\ pc = "generate" /\ handled < MaxConstructs
    /\ LET r == FunctionCodegen(FnAST, TheModule, NamedValues)
       IN  /\ TheModule' = r.M
           /\ NamedValues' = r.nv
           /\ errs' = r.errs
           /\ ret' = GenReturn("def", FnAST, r)
    /\ handled' = handled + 1
    /\ UNCHANGED <<build, input, pos, LastChar, IdentStr, NumVal, CurTok,
                   BinopPrecedence, pc, toks>>

(* HandleExtern, ParseExtern having returned ProtoAST *)
HandleExtern(ProtoAST) ==
    /\ pc = "generate" /\ handled < MaxConstructs
    /\ LET r == PrototypeCodegen(ProtoAST, TheModule)
       IN  /\ TheModule' = r.M
           /\ ret' = GenReturn("extern", ProtoAST,
                               [ok |-> TRUE, F |-> r.F, seen |-> FALSE,
                                at |-> [M |-> TheModule, nv |-> NamedValues]])
    /\ errs' = <<>>
    /\ handled' = handled + 1
    /\ UNCHANGED <<build, input, pos, LastChar, IdentStr, NumVal, CurTok,
                   BinopPrecedence, NamedValues, pc, toks>>

(* HandleTopLevelExpression, ParseTopLevelExpr having wrapped E in the     *)
(* anonymous prototype                                                     *)
HandleTopLevelExpression(E) ==
    /\ pc = "generate" /\ handled < MaxConstructs
    /\ LET FnAST == FunctionAst(PrototypeAst(<<>>, <<>>), E)
           r     == FunctionCodegen(FnAST, TheModule, NamedValues)
       IN  /\ TheModule' = IF r.ok THEN eraseFromParent(r.M, r.F) ELSE r.M
           /\ NamedValues' = r.nv
           /\ errs' = r.errs
           /\ ret' = GenReturn("expr", FnAST, r)
    /\ handled' = handled + 1
    /\ UNCHANGED <<build, input, pos, LastChar, IdentStr, NumVal, CurTok,
                   BinopPrecedence, pc, toks>>

NextGen ==
    \/ \E P \in ProtoPool, E \in BodyPool : HandleDefinition(FunctionAst(P, E))
    \/ \E P \in ProtoPool : HandleExtern(P)
    \/ \E E \in ExprPool : HandleTopLevelExpression(E)

Spec == InitGen /\ [][NextGen]_vars

----------------------------------------------------------------------------
(* The driver: main() primes the current token and MainLoop dispatches on  *)
(* it, each handler parsing its construct and generating it, or skipping a *)
(* token when the parse failed.                                            *)

MaxMainLen == 3

MainAlphabet == {Ord(c) : c \in {"1", "+", ")", ";", " ", "x"}}

Programs ==
    {Str(w) : w \in {<<"d", "e", "f", " ", "f", "(", "a", ")", " ", "a", ";">>,
                     <<"d", "e", "f", " ", "f", "(", "a", ")", " ", "a", " ", "f", "(", "1", ")">>,
                     <<"d", "e", "f", " ", "f", "(", "a", ")", " ", "a", " ", "f", "(", "x", ")">>,
                     <<"d", "e", "f", " ", "f", "(", "a", ")", " ", "a", " ", "f", "(", "1", "+">>,
                     <<"d", "e", "f", " ", "f", "(", "a", ")", " ", "a", " ", ")", "1">>,
                     <<"d", "e", "f", " ", "f", "(", "a", ")", " ", "x", " ", "1">>,
                     <<"d", "e", "f", " ", "f", "(", "a", " ", "1">>,
                     <<"d", "e", "f", " ", "1", " ", "x">>,
                     <<"d", "e", "f">>,
                     <<"e", "x", "t", "e", "r", "n", " ", "f", "(", "a", ")", " ", "f", "(", "1", ")", ";">>,
                     <<"e", "x", "t", "e", "r", "n", " ", "f", "(", "a", ")", "f", "(", ")">>,
                     <<"e", "x", "t", "e", "r", "n", " ", "f", "(", "a", ")", "1", "+", ";">>,
                     <<"e", "x", "t", "e", "r", "n", " ", "f", "(", "a", ")", "d", "e", "f", " ",
                       "f", "(", "b", ")", "b">>,
                     <<"e", "x", "t", "e", "r", "n", " ", "(", ")">>,
                     <<"e", "x", "t", "e", "r", "n">>,
                     <<"(", "1", "+", "2">>, <<"1", "+", ")", "2">>, <<"1", " ", "2", ";", ";">>,
                     <<"#", "c", "\n", "1", ";", "#", "c">>, <<"f", "(", "1", ",">>,
                     <<"1", "/", "2">>, <<"(", "(", ")", ")">>}}

MainInputs == Programs \cup SeqsUpTo(MainAlphabet, MaxMainLen)

InitMain ==
    /\ \E b \in Builds, inp \in MainInputs :
          /\ build = b /\ input = inp
          /\ pos = Boot(b, inp).pos /\ LastChar = Boot(b, inp).LastChar
          /\ IdentStr = Boot(b, inp).IdentStr /\ NumVal = Boot(b, inp).NumVal
          /\ CurTok = Boot(b, inp).CurTok
          /\ BinopPrecedence = Boot(b, inp).BinopPrecedence
    /\ TheModule = [fns |-> <<>>, LastUnique |-> 0]
    /\ NamedValues = << >>
    /\ errs = <<>>
    /\ toks = <<>>
    /\ handled = 0
    /\ ret = [op |-> "none", ast |-> Null, ok |-> TRUE, F |-> <<>>, seen |-> FALSE,
              at |-> [M |-> TheModule, nv |-> NamedValues], before |-> TheModule]
    /\ pc = "start"

(* main(): getNextToken(); MainLoop(); *)
MainStart ==
    /\ pc = "start"
    /\ Store(getNextToken(State))
    /\ pc' = "loop"
    /\ UNCHANGED <<build, input, TheModule, NamedValues, ret, toks, handled>>

(* case tok_eof: return; *)
LoopReturn ==
    /\ pc = "loop" /\ CurTok = tok_eof
    /\ pc' = "done"
    /\ UNCHANGED <<build, input, pos, LastChar, IdentStr, NumVal, CurTok,
                   BinopPrecedence, TheModule, NamedValues, errs, ret, toks, handled>>

(* A handler whose parse returned nullptr generates nothing. *)
NoCodegen ==
    [M |-> TheModule, nv |-> NamedValues, errs |-> <<>>, ok |-> FALSE, F |-> <<>>,
     seen |-> FALSE, at |-> [M |-> TheModule, nv |-> NamedValues]]

(* else { getNextToken(); }: skip a token for error recovery *)
SkipOnFailure_Never(p) == p.s

SkipOnFailure(p) == IF p.n = Null THEN getNextToken(p.s) ELSE p.s

(* What a handler leaves: p the parse result, r the generation's. *)
Handled(op, p, r0) ==
    \E r \in {r0}, s \in {SkipOnFailure(p)} :
        /\ Store([s EXCEPT !.errs = p.s.errs \o r.errs])
        /\ TheModule' = r.M
        /\ NamedValues' = r.nv
        /\ ret' = GenReturn(op, p.n, r)
        /\ handled' = handled + 1
        /\ UNCHANGED <<build, input, pc, toks>>

(* ProtoAST->codegen() in HandleExtern *)
ExternCodegen(d) ==
    [M |-> d.M, nv |-> NamedValues, errs |-> <<>>, ok |-> TRUE, F |-> d.F,
     seen |-> FALSE, at |-> [M |-> TheModule, nv |-> NamedValues]]

(* FnIR->eraseFromParent() in HandleTopLevelExpression *)
RemoveAnonymous_Keep(r) == r

RemoveAnonymous(r) == IF r.ok THEN [r EXCEPT !.M = eraseFromParent(@, r.F)] ELSE r

DefinitionParsed(p) ==
    Handled("def", p, IF p.n = Null THEN NoCodegen
                      ELSE FunctionCodegen(p.n, TheModule, NamedValues))

ExternParsed(p) ==
    Handled("extern", p, IF p.n = Null THEN NoCodegen
                         ELSE ExternCodegen(PrototypeCodegen(p.n, TheModule)))

TopLevelParsed(p) ==
    Handled("expr", p, IF p.n = Null THEN NoCodegen
                       ELSE RemoveAnonymous(FunctionCodegen(p.n, TheModule, NamedValues)))

(* case ';': getNextToken(); *)
LoopSemicolon ==
    /\ pc = "loop" /\ CurTok = 59
    /\ Store(getNextToken(State))
    /\ ret' = [ret EXCEPT !.op = "semicolon", !.ast = Null, !.before = TheModule]
    /\ handled' = handled + 1
    /\ UNCHANGED <<build, input, TheModule, NamedValues, pc, toks>>

(* case tok_def: HandleDefinition(); *)
LoopDefinition ==
    /\ pc = "loop" /\ CurTok = tok_def
    /\ \E p \in {ParseDefinition(State)} : DefinitionParsed(p)

(* case tok_extern: HandleExtern(); *)
LoopExtern ==
    /\ pc = "loop" /\ CurTok = tok_extern
    /\ \E p \in {ParseExtern(State)} : ExternParsed(p)

(* default: HandleTopLevelExpression(); *)
LoopTopLevelExpression ==
    /\ pc = "loop" /\ CurTok \notin {tok_eof, 59, tok_def, tok_extern}
    /\ \E p \in {ParseTopLevelExpr(State)} : TopLevelParsed(p)

NextMain ==
    \/ MainStart
    \/ LoopReturn
    \/ LoopSemicolon
    \/ LoopDefinition
    \/ LoopExtern
    \/ LoopTopLevelExpression

(* A sequential program: the driver takes its next step whenever it has    *)
(* one.                                                                    *)
SpecMain == InitMain /\ [][NextMain]_vars /\ WF_vars(NextMain)

----------------------------------------------------------------------------
(* Properties of the parser *)

(* The state in which a rule is applied: after main()'s first getNextToken *)
Primed == getNextToken(Boot(build, input))

(* The precedence table as the specification states it. *)
TableOfSpec == (60 :> 10) @@ (43 :> 20) @@ (45 :> 20) @@ (42 :> 40)

IsOp(tok) == tok \in DOMAIN TableOfSpec

(* The input read as p1 op1 p2 op2 p3 followed by a token that is no       *)
(* operator: the three primaries and the two operators.                    *)
ThreePrimaries ==
    LET a == ParsePrimary(Primed)
        b == ParsePrimary(getNextToken(a.s))
        c == ParsePrimary(getNextToken(b.s))
    IN  [ok  |-> /\ a.n # Null /\ IsOp(a.s.CurTok)
                 /\ b.n # Null /\ IsOp(b.s.CurTok)
                 /\ c.n # Null /\ ~IsOp(c.s.CurTok),
         p1 |-> a.n, op1 |-> a.s.CurTok, p2 |-> b.n, op2 |-> b.s.CurTok, p3 |-> c.n]

(* C1: p1 op1 p2 op2 p3 parses to BinaryOp(op1, p1, BinaryOp(op2, p2, p3)) *)
(* when op2 has the higher precedence in the startup table, and to         *)
(* BinaryOp(op2, BinaryOp(op1, p1, p2), p3) otherwise; 1+2*3 gives the sum *)
(* of 1 and the product, 1*2+3 the sum of the product and 3.               *)
C1_PrecedenceClimbing ==
    pc = "expression" =>
        /\ LET t == ThreePrimaries
           IN  t.ok =>
                 ret = IF TableOfSpec[t.op2] > TableOfSpec[t.op1]
                       THEN BinExprAst(t.op1, t.p1, BinExprAst(t.op2, t.p2, t.p3))
                       ELSE BinExprAst(t.op2, BinExprAst(t.op1, t.p1, t.p2), t.p3)
        /\ (build = "hpp" /\ input = Str(<<"1", "+", "2", "*", "3">>)) =>
              ret = BinExprAst(43, Lit(<<1>>), BinExprAst(42, Lit(<<2>>), Lit(<<3>>)))
        /\ (build = "hpp" /\ input = Str(<<"1", "*", "2", "+", "3">>)) =>
              ret = BinExprAst(43, BinExprAst(42, Lit(<<1>>), Lit(<<2>>)), Lit(<<3>>))

C1_Witness ==
    /\ pc = "expression"
    /\ ThreePrimaries.ok
    /\ TableOfSpec[ThreePrimaries.op2] > TableOfSpec[ThreePrimaries.op1]
    /\ ret.k = "bin" /\ ret.Rhs.k = "bin" /\ ret.Lhs.k = "var"

(* The input read from state s as a run of  op primary  pairs whose        *)
(* operators all have precedence p, ended by a token that is no operator:  *)
(* the left-nested tree over acc and the number of operators.              *)
RECURSIVE LeftNested(_, _, _, _)
LeftNested(s, acc, p, cnt) ==
    IF ~IsOp(s.CurTok) THEN [ok |-> TRUE, n |-> acc, cnt |-> cnt]
    ELSE IF TableOfSpec[s.CurTok] # p THEN [ok |-> FALSE, n |-> Null, cnt |-> cnt]
    ELSE LET r == ParsePrimary(getNextToken(s))
         IN  IF r.n = Null THEN [ok |-> FALSE, n |-> Null, cnt |-> cnt]
             ELSE LeftNested(r.s, BinExprAst(s.CurTok, acc, r.n), p, cnt + 1)

EqualPrecedenceChain ==
    LET a == ParsePrimary(Primed)
    IN  IF a.n = Null \/ ~IsOp(a.s.CurTok) THEN [ok |-> FALSE, n |-> Null, cnt |-> 0]
        ELSE LeftNested(a.s, a.n, TableOfSpec[a.s.CurTok], 0)

(* C2: a chain of operators of equal precedence parses to the left-nested  *)
(* tree; 1-2-3 gives BinaryOp('-', BinaryOp('-', 1, 2), 3).                *)
C2_LeftAssociative ==
    pc = "expression" =>
        /\ LET c == EqualPrecedenceChain
           IN  (c.ok /\ c.cnt >= 2) => ret = c.n
        /\ (build = "hpp" /\ input = Str(<<"1", "-", "2", "-", "3">>)) =>
              ret = BinExprAst(45, BinExprAst(45, Lit(<<1>>), Lit(<<2>>)), Lit(<<3>>))

C2_Witness ==
    /\ pc = "expression"
    /\ EqualPrecedenceChain.ok /\ EqualPrecedenceChain.cnt = 3
    /\ ret.k = "bin" /\ ret.Op = 45 /\ ret.Lhs.k = "bin" /\ ret.Lhs.Op = 43
    /\ ret.Lhs.Lhs.k = "bin"

(* C6: a parenthesized expression whose ')' is missing at the end of the   *)
(* input: ParsePrimary returns no node, has consumed the whole input, and  *)
(* leaves the end marker as the current token.                             *)
C6_UnmatchedParen ==
    (pc = "primary" /\ input \in UnclosedInputs) =>
        /\ ret = Null
        /\ pos = Len(input) /\ LastChar = EOF
        /\ CurTok = tok_eof

C6_Witness ==
    /\ pc = "primary"
    /\ input = Str(<<"(", "1", "+", "2">>)
    /\ ret = Null /\ CurTok = tok_eof /\ errs = <<"expected ')'">>

(* The scanner's successive results on an input, up to the first end       *)
(* marker: the token, its payloads, and the scanner's position after it.   *)
RECURSIVE ScanAll(_, _)
ScanAll(s, acc) ==
    Then(gettok(s), LAMBDA g :
        Then(Append(acc, [tok |-> g.tok, IdentStr |-> g.s.IdentStr,
                          NumVal |-> g.s.NumVal, pos |-> g.s.pos,
                          LastChar |-> g.s.LastChar]),
             LAMBDA acc1 : IF g.tok = tok_eof THEN acc1 ELSE ScanAll(g.s, acc1)))

TokensOf(b, inp) == ScanAll(Boot(b, inp), <<>>)

(* Which of the input's tokens is the current token: the one after which   *)
(* the scanner stands where it stands now (a last token that ends with the *)
(* input and the end marker leave the scanner at the same place; CurTok    *)
(* tells them apart), 0 if the scanner stands after no such token.         *)
FirstAt(T, p, c, tok) ==
    Then({k \in 1..Len(T) : T[k].pos = p /\ T[k].LastChar = c /\ T[k].tok = tok},
         LAMBDA at : IF at = {} THEN 0 ELSE CHOOSE k \in at : \A j \in at : k <= j)

LastDelivered ==
    Then(TokensOf(build, input), LAMBDA T : FirstAt(T, pos, LastChar, CurTok))

(* The input up to the end of its k-th token. *)
UpToToken(k) ==
    Then(TokensOf(build, input), LAMBDA T :
        IF k = 0 THEN <<>>
        ELSE IF T[k].LastChar = EOF THEN SubSeq(input, 1, T[k].pos)
        ELSE SubSeq(input, 1, T[k].pos - 1))

Rules ==
    {"primary", "expression", "identexpr", "numexpr", "parenexpr", "prototype",
     "definition", "extern", "toplevel"}

RuleResult(rule, s) ==
    CASE rule = "primary"    -> ParsePrimary(s)
      [] rule = "expression" -> ParseExpression(s)
      [] rule = "identexpr"  -> ParseIdentExpr(s)
      [] rule = "numexpr"    -> ParseNumExpr(s)
      [] rule = "parenexpr"  -> ParseParenExpr(s)
      [] rule = "prototype"  -> ParsePrototype(s)
      [] rule = "definition" -> ParseDefinition(s)
      [] rule = "extern"     -> ParseExtern(s)
      [] rule = "toplevel"   -> ParseTopLevelExpr(s)

(* What the rule returns on the input cut after its k-th token. *)
OnPrefix(rule, k) == RuleResult(rule, getNextToken(Boot(build, UpToToken(k)))).n

(* C11: when a parser rule returns a node, the current token is the token  *)
(* the scanner stands after, say the k-th of the input; the node is the    *)
(* construct made of the k-1 tokens before it (the rule returns the same   *)
(* node on the input cut before the k-th token, and not on the input cut   *)
(* before the (k-1)-th), and the scanner has read nothing after the k-th.  *)
C11_OneTokenLookahead ==
    (pc \in Rules /\ ret # Null) =>
        LET T == TokensOf(build, input)
            k == LastDelivered
        IN  /\ k >= 2
            /\ CurTok = tok_ident => IdentStr = T[k].IdentStr
            /\ CurTok = tok_num => NumVal = T[k].NumVal
            /\ OnPrefix(pc, k - 1) = ret
            /\ OnPrefix(pc, k - 2) # ret

(* def f(a b) a+b ;  parsed as a definition, the ';' left as current token *)
C11_Witness ==
    /\ pc = "definition" /\ ret # Null
    /\ ret.Proto.Args = <<Na, Nb>> /\ ret.Body.k = "bin"
    /\ CurTok = 59 /\ LastDelivered = 10

(* Whether some '<' node of the tree n has a '<' node as its left operand  *)
(* (when l) or as its right operand (when r).                              *)
RECURSIVE LtOverLt(_, _, _)
LtOverLt(n, l, r) ==
    IF n.k = "bin"
    THEN \/ /\ n.Op = 60
            /\ \/ l /\ n.Lhs.k = "bin" /\ n.Lhs.Op = 60
               \/ r /\ n.Rhs.k = "bin" /\ n.Rhs.Op = 60
         \/ LtOverLt(n.Lhs, l, r)
         \/ LtOverLt(n.Rhs, l, r)
    ELSE IF n.k = "call"
    THEN \E i \in 1..Len(n.Args) : LtOverLt(n.Args[i], l, r)
    ELSE FALSE

(* Every operator of the input is at the same nesting level. *)
NoParens == \A i \in 1..Len(input) : input[i] # 40

(* C13 as stated: on an input whose '<' are all at the same nesting level  *)
(* ParseExpression returns no tree in which a '<' node has another '<'     *)
(* node as a direct operand.                                               *)
C13_AsStated ==
    (pc = "expression" /\ NoParens) => ~LtOverLt(ret, TRUE, TRUE)

(* C13, amended: '<' associates to the left like the other operators: on   *)
(* an input whose '<' are all at the same nesting level no '<' node has a  *)
(* '<' node as its right operand, p1 < p2 < p3 parses to                   *)
(* BinaryOp('<', BinaryOp('<', p1, p2), p3), and in general the second of  *)
(* two '<' takes the whole first comparison as its left operand.           *)
C13_LessThanLeftAssociative ==
    (pc = "expression" /\ NoParens) =>
        /\ ~LtOverLt(ret, FALSE, TRUE)
        /\ LET t == ThreePrimaries
           IN  (t.ok /\ t.op1 = 60 /\ t.op2 = 60) =>
                   ret = BinExprAst(60, BinExprAst(60, t.p1, t.p2), t.p3)
        /\ (build = "hpp" /\ input = Str(<<"1", "<", "2", "<", "3">>)) =>
              ret = BinExprAst(60, BinExprAst(60, Lit(<<1>>), Lit(<<2>>)), Lit(<<3>>))
        /\ LET c == EqualPrecedenceChain
           IN  (c.ok /\ c.cnt >= 2 /\ ret.k = "bin" /\ ret.Op = 60) =>
                   ret.Lhs.k = "bin" /\ ret.Lhs.Op = 60

(* 1<2<3: the first comparison is the left operand of the second *)
C13_Witness ==
    /\ pc = "expression" /\ build = "hpp"
    /\ input = Str(<<"1", "<", "2", "<", "3">>)
    /\ ret.k = "bin" /\ ret.Op = 60 /\ ret.Lhs.k = "bin" /\ ret.Lhs.Op = 60
    /\ ret.Rhs = Lit(<<3>>)

----------------------------------------------------------------------------
(* Properties of the scanner *)

(* The characters gettok has still to classify: the lookahead character    *)
(* and what getchar() has not handed out.                                  *)
Pending ==
    IF LastChar = EOF THEN <<>>
    ELSE <<LastChar>> \o SubSeq(input, pos + 1, Len(input))

RECURSIVE DropSpaces(_)
DropSpaces(w) == IF w # <<>> /\ isspace(Head(w)) THEN DropSpaces(Tail(w)) ELSE w

(* The maximal run of letters and digits at the head of w. *)
RECURSIVE AlnumRun(_)
AlnumRun(w) ==
    IF w # <<>> /\ isalnum(Head(w)) THEN <<Head(w)>> \o AlnumRun(Tail(w)) ELSE <<>>

(* C8: where the pending text starts (after white space) with a letter,    *)
(* gettok returns the def keyword when the maximal run of letters and      *)
(* digits is "def", the extern keyword when it is "extern", and otherwise  *)
(* an identifier token whose payload is that run.                          *)
C8_IdentifierRule ==
    [][LET w == DropSpaces(Pending)
       IN  (w # <<>> /\ isalpha(Head(w))) =>
             LET run == AlnumRun(w)
             IN  IF run = Str(<<"d", "e", "f">>) THEN ret' = tok_def
                 ELSE IF run = Str(<<"e", "x", "t", "e", "r", "n">>) THEN ret' = tok_extern
                 ELSE ret' = tok_ident /\ IdentStr' = run]_vars

(* The index of the first end-of-line character of the input, 0 if none. *)
FirstEol ==
    LET at == {i \in 1..Len(input) : input[i] \in {10, 13}}
    IN  IF at = {} THEN 0 ELSE CHOOSE i \in at : \A j \in at : i <= j

IsDigits(w) == w # <<>> /\ \A i \in 1..Len(w) : isdigit(w[i]) /\ w[1] # 48

(* C7: an input that is a '#' comment, an end of line and a number scans   *)
(* to one number token with that number's value and then the end marker;   *)
(* an input that is a '#' comment up to the end of input scans to the end  *)
(* marker.                                                                 *)
C7_CommentSkipping ==
    (pc = "lex" /\ input # <<>> /\ input[1] = 35) =>
        /\ (FirstEol = 0 /\ Len(toks) >= 1) => toks[1].tok = tok_eof
        /\ (FirstEol > 0 /\ IsDigits(SubSeq(input, FirstEol + 1, Len(input)))
              /\ Len(toks) >= 2) =>
             /\ toks[1].tok = tok_num
             /\ toks[1].NumVal =
                  [ip |-> [i \in 1..(Len(input) - FirstEol) |-> input[FirstEol + i] - 48],
                   fp |-> <<>>]
             /\ toks[2].tok = tok_eof

----------------------------------------------------------------------------
(* Properties of the code generator *)

Cannot == <<"Function cannot be redefined">>

UnknownFunction == <<"Unknown function referenced">>

WrongCount == <<"Incorrect # args passed">>

UnknownVariable == <<"Unknown variable name">>

Declared(M, Name) == \E i \in 1..Len(M.fns) : M.fns[i].Name = Name

TheFn(M, Name) == M.fns[CHOOSE i \in 1..Len(M.fns) : M.fns[i].Name = Name]

Finalized(fn) ==
    fn.hasEntry /\ fn.insts # <<>> /\ fn.insts[Len(fn.insts)].op = "ret"

IsDef == ret.op = "def"

DefName == ret.ast.Proto.Name

(* Whether expression e generates from the module and symbol table the     *)
(* body of the last construct started from.                                *)
Generates(e) ==
    ExprCodegen(e, [M |-> ret.at.M, nv |-> ret.at.nv, insts |-> <<>>,
                    errs |-> <<>>]).v # "null"

C4_CallArity ==
    (ret.seen /\ ret.ast.Body.k = "call") =>
        LET c == ret.ast.Body
        IN  IF ~Declared(ret.at.M, c.Callee)
            THEN ~ret.ok /\ errs = UnknownFunction
            ELSE IF Len(TheFn(ret.at.M, c.Callee).Args) # Len(c.Args)
            THEN ~ret.ok /\ errs = WrongCount
            ELSE (\A i \in 1..Len(c.Args) : Generates(c.Args[i])) => ret.ok

(* a call with fewer arguments than the callee has parameters *)
C4_Witness ==
    /\ ret.seen /\ ret.ast.Body.k = "call"
    /\ Declared(ret.at.M, ret.ast.Body.Callee)
    /\ Len(TheFn(ret.at.M, ret.ast.Body.Callee).Args) > Len(ret.ast.Body.Args)
    /\ ~ret.ok /\ errs = WrongCount

(* The parameters of the function whose body the last construct generated *)
ParamsAtBody ==
    {TheFn(ret.at.M, ret.F).Args[i] : i \in 1..Len(TheFn(ret.at.M, ret.F).Args)}

ParsedIdent(b, x) == ParseExpression(getNextToken(Boot(b, x)))

(* C5: in the body of a function with parameters P, a VariableRef(x)       *)
(* generates when x is in P and fails with "unknown variable name" when it *)
(* is not; parsing the identifier gives a node and reports no error.       *)
C5_UnknownVariable ==
    ret.seen =>
        /\ \A x \in {Na, Nb, Nx} :
              LET r == ExprCodegen(VarExprAst(x),
                                   [M |-> ret.at.M, nv |-> ret.at.nv,
                                    insts |-> <<>>, errs |-> <<>>])
              IN  IF x \in ParamsAtBody THEN r.v # "null" /\ r.g.errs = <<>>
                  ELSE r.v = "null" /\ r.g.errs = UnknownVariable
        /\ ret.ast.Body.k = "var" =>
              IF ret.ast.Body.Name \in ParamsAtBody THEN ret.ok /\ errs = <<>>
              ELSE ~ret.ok /\ errs = UnknownVariable
        /\ \A x \in {Na, Nb, Nx}, b \in Builds :
              ParsedIdent(b, x).n.k = "var" /\ ParsedIdent(b, x).s.errs = <<>>
        /\ \A x \in {Na, Nb, Nx} : ParsedIdent("hpp", x).n = VarExprAst(x)

C5_Witness ==
    /\ IsDef /\ ret.seen /\ ret.ast.Body = VarExprAst(Nx)
    /\ ParamsAtBody = {Na, Nb}
    /\ ~ret.ok /\ errs = UnknownVariable

(* C9 as stated: after a failed generation of a definition every function  *)
(* that was in the module before is still there, with the same parameter   *)
(* count and the same body status.                                         *)
C9_FailureKeepsEarlierFunctions ==
    (IsDef /\ ~ret.ok) =>
        \A i \in 1..Len(ret.before.fns) :
            LET old == ret.before.fns[i]
            IN  /\ Declared(TheModule, old.Name)
                /\ Len(TheFn(TheModule, old.Name).Args) = Len(old.Args)
                /\ TheFn(TheModule, old.Name).hasEntry = old.hasEntry

NoPartialFunction ==
    \A i \in 1..Len(TheModule.fns) :
        ~TheModule.fns[i].hasEntry \/ Finalized(TheModule.fns[i])

CallsTo(Name) == {CallExprAst(Name, args) : args \in {<<>>, <<One>>, <<One, One>>}}

(* Every Call to Name fails now with "unknown function referenced" *)
CallFailsUnknown(Name) ==
    \A c \in CallsTo(Name) :
        LET r == ExprCodegen(c, [M |-> TheModule, nv |-> << >>, insts |-> <<>>,
                                 errs |-> <<>>])
        IN  r.v = "null" /\ r.g.errs = UnknownFunction

(* C10 as stated: no function with an entry block and no return is in the  *)
(* module between constructs, and after a failed generation of f a Call to *)
(* f fails with "unknown function referenced".                             *)
C10_AsStated ==
    /\ NoPartialFunction
    /\ (IsDef /\ ~ret.ok) => CallFailsUnknown(DefName)

(* C10, amended: no function with an entry block and no return is in the   *)
(* module between constructs; after a generation of f that failed in its   *)
(* body, f is not in the module and a Call to f fails with "unknown        *)
(* function referenced", and f comes back only by being declared again;    *)
(* after a rejected redefinition f stays in the module, finalized.         *)
C10_FunctionStates ==
    /\ [](/\ NoPartialFunction
          /\ (IsDef /\ ~ret.ok /\ ret.seen) =>
                ~Declared(TheModule, DefName) /\ CallFailsUnknown(DefName)
          /\ (IsDef /\ ~ret.ok /\ ~ret.seen) =>
                /\ errs = Cannot
                /\ Declared(TheModule, DefName)
                /\ Finalized(TheFn(TheModule, DefName)))
    /\ [][\A n \in {Nf, Ng} :
            (~Declared(TheModule, n) /\ Declared(TheModule', n)) =>
                ret'.op \in {"def", "extern"} /\ ret'.F = n]_vars

(* def f fails in its body, then a construct calls f and fails *)
C10_Witness ==
    /\ ret.seen /\ ret.ast.Body.k = "call" /\ ~ret.ok /\ errs = UnknownFunction
    /\ ret.ast.Body.Callee = Nf
    /\ handled >= 2
    /\ ~Declared(TheModule, Nf)

(* C12: when the body of a definition  def f(p1 ... pn) body  starts to be *)
(* generated, the symbol table maps exactly p1..pn, the parameter names of *)
(* that definition's prototype, whatever declaration of f the module held. *)
C12_SymbolTableReset ==
    (IsDef /\ ret.seen) =>
        /\ DOMAIN ret.at.nv = {ret.ast.Proto.Args[i] : i \in 1..Len(ret.ast.Proto.Args)}
        /\ \A n \in DOMAIN ret.at.nv : ret.at.nv[n] = "arg"

(* The generation state the body of the last construct started from. *)
AtBody == [M |-> ret.at.M, nv |-> ret.at.nv, insts |-> <<>>, errs |-> <<>>]

(* The first argument of call c that does not generate, 0 if all do. *)
FirstFailing(c) ==
    LET bad == {i \in 1..Len(c.Args) : ExprCodegen(c.Args[i], AtBody).v = "null"}
    IN  IF bad = {} THEN 0 ELSE CHOOSE i \in bad : \A j \in bad : i <= j

(* The generation state after arguments 1..j of c, generated in order. *)
RECURSIVE AfterArgs(_, _)
AfterArgs(c, j) == IF j = 0 THEN AtBody ELSE ExprCodegen(c.Args[j], AfterArgs(c, j - 1)).g

(* C14: a Call whose callee is unknown, or takes another number of         *)
(* arguments, fails having generated none of its arguments (no error of an *)
(* argument, no symbol-table entry, no instruction); otherwise the         *)
(* arguments are generated left to right up to and including the first     *)
(* that fails, nothing after it and no call instruction; when all generate *)
(* the call instruction follows their instructions.                        *)
C14_CallOrdering ==
    (ret.seen /\ ret.ast.Body.k = "call") =>
        LET c   == ret.ast.Body
            j   == FirstFailing(c)
            out == ExprCodegen(c, AtBody)
        IN  IF ~Declared(ret.at.M, c.Callee)
            THEN /\ ~ret.ok /\ errs = UnknownFunction
                 /\ NamedValues = ret.at.nv /\ out.g.insts = <<>>
            ELSE IF Len(TheFn(ret.at.M, c.Callee).Args) # Len(c.Args)
            THEN /\ ~ret.ok /\ errs = WrongCount
                 /\ NamedValues = ret.at.nv /\ out.g.insts = <<>>
            ELSE IF j # 0
            THEN /\ ~ret.ok
                 /\ errs = AfterArgs(c, j).errs
                 /\ NamedValues = AfterArgs(c, j).nv
                 /\ out.g.insts = AfterArgs(c, j).insts
            ELSE /\ ret.ok /\ errs = <<>>
                 /\ NamedValues = AfterArgs(c, Len(c.Args)).nv
                 /\ out.g.insts = Append(AfterArgs(c, Len(c.Args)).insts,
                                         Inst("call", c.Callee))
                 /\ IsDef => TheFn(TheModule, ret.F).insts
                                = Append(out.g.insts, Inst("ret", <<>>))

(* f(x, g(1)) with f taking two arguments, x unknown and g undeclared: the *)
(* call stops at x and g(1) leaves no error.                               *)
C14_Witness ==
    /\ ret.seen /\ ret.ast.Body = CallExprAst(Nf, <<VarExprAst(Nx), CallExprAst(Ng, <<One>>)>>)
    /\ Declared(ret.at.M, Nf) /\ Len(TheFn(ret.at.M, Nf).Args) = 2
    /\ ~Declared(ret.at.M, Ng)
    /\ ~ret.ok /\ errs = UnknownVariable

(* C15: between top-level constructs every call instruction of a function *)
(* in the module targets a function that is in the module.                 *)
C15_NoDanglingCallee ==
    \A i \in 1..Len(TheModule.fns) :
        \A j \in 1..Len(TheModule.fns[i].insts) :
            TheModule.fns[i].insts[j].op = "call" =>
                Declared(TheModule, TheModule.fns[i].insts[j].callee)

----------------------------------------------------------------------------
(* Properties of the driver *)

(* Which of the input's tokens is the current token of parser state s. *)
TokenAt(s) ==
    Then(TokensOf(build, input), LAMBDA T : FirstAt(T, s.pos, s.LastChar, s.CurTok))

(* What the rule MainLoop dispatches to returns in the current state. *)
Dispatched ==
    RuleResult(IF CurTok = tok_def THEN "definition"
               ELSE IF CurTok = tok_extern THEN "extern" ELSE "toplevel", State)

IsHandler(op) == op \in {"def", "extern", "expr"}

NamedFunctions(M) == SelectSeq(M.fns, LAMBDA f : f.Name # <<>>)

----------------------------------------------------------------------------
(* Properties of the operators the parser accepts *)

(* The operators of the BinaryOp nodes of n, n any node a rule returns. *)
RECURSIVE BinOpsOf(_)
BinOpsOf(n) ==
    IF n.k = "bin" THEN {n.Op} \cup BinOpsOf(n.Lhs) \cup BinOpsOf(n.Rhs)
    ELSE IF n.k = "call" THEN UNION {BinOpsOf(n.Args[i]) : i \in 1..Len(n.Args)}
    ELSE IF n.k = "function" THEN BinOpsOf(n.Body)
    ELSE {}

(* The names of the variables of expression n. *)
RECURSIVE VarsOf(_)
VarsOf(n) ==
    IF n.k = "var" THEN {n.Name}
    ELSE IF n.k = "bin" THEN VarsOf(n.Lhs) \cup VarsOf(n.Rhs)
    ELSE IF n.k = "call" THEN UNION {VarsOf(n.Args[i]) : i \in 1..Len(n.Args)}
    ELSE {}

(* An insertion point where every variable of n is a parameter. *)
Friendly(n) ==
    [M |-> [fns |-> <<>>, LastUnique |-> 0], nv |-> [v \in VarsOf(n) |-> "arg"],
     insts |-> <<>>, errs |-> <<>>]

InvalidOperator == "invalid binary operator"

Logged(es, msg) == \E i \in 1..Len(es) : es[i] = msg

(* C18: every BinaryOp node of a node a parse rule returns carries one of  *)
(* '<', '+', '-', '*', the switch of its codegen emits an instruction for  *)
(* it, and generating a returned expression logs no "invalid binary        *)
(* operator"; GetTokPrecedence returns -1 or a positive value, and -1 when *)
(* the current token is a keyword, an identifier, a number or the end      *)
(* marker.                                                                 *)
C18_OnlyKnownOperators ==
    /\ (pc \in Rules /\ ret # Null) =>
          /\ BinOpsOf(ret) \subseteq OpChars
          /\ \A op \in BinOpsOf(ret) : BinEmit(op, Friendly(ret)).v = "inst"
    /\ (pc \in {"primary", "expression", "identexpr", "numexpr", "parenexpr"}
            /\ ret # Null) =>
          ~Logged(ExprCodegen(ret, Friendly(ret)).g.errs, InvalidOperator)
    /\ GetTokPrecedence(State).prec = -1 \/ GetTokPrecedence(State).prec > 0
    /\ CurTok \in {tok_eof, tok_def, tok_extern, tok_ident, tok_num} =>
          GetTokPrecedence(State).prec = -1

(* 1<2+3*4 : three of the operators in one expression, generated in full. *)
C18_Witness ==
    /\ pc = "expression" /\ ret # Null /\ BinOpsOf(ret) = {60, 43, 42}
    /\ ExprCodegen(ret, Friendly(ret)).v = "inst"
    /\ CurTok = tok_eof /\ GetTokPrecedence(State).prec = -1

====
